---- MODULE Spec2Model ----
(***************************************************************************)
(* State-machine model of the in-memory battle coordination core of the    *)
(* vocabulary battle bot (src/handlers/callback_handlers.py), of its       *)
(* rematch requests (src/handlers/rebate_handlers.py and lines 643-908 of  *)
(* callback_handlers.py) and of the table of waiting players               *)
(* (src/database/pending_requests.py).                                     *)
(*                                                                         *)
(* The bot runs on one asyncio event loop and the dispatcher handles every *)
(* update in a task of its own.  A handler therefore runs atomically from  *)
(* one await to the next and handlers interleave at their awaits.  Each    *)
(* action below is one such atomic stretch of one handler; a handler that  *)
(* is suspended at an await is a record in the bag tasks.                  *)
(*                                                                         *)
(* Left out because no handler ever reads them: the FSM state set with     *)
(* state.set_state (no handler is filtered by state), the answer_index and *)
(* timestamp fields of an answer record, the texts of the questions.       *)
(***************************************************************************)
EXTENDS Integers, Sequences, FiniteSets, Bags, TLC

(***************************************************************************)
(* Bounds of the model.                                                    *)
(***************************************************************************)
\* Telegram users 1..NumUsers.
NumUsers == 2
\* Book ids and topic ids 1..MaxScopeId.
MaxScopeId == 1
\* Number of create_battle_session calls that reach the matchmaking step over
\* a behaviour; a call's number stands for its CallbackQuery object.
MaxRequests == 3
\* Number of questions of a battle.  The source fixes it at 10
\* (callback_handlers.py lines 276, 291, 297); the model scales it down.
QuestionsPerBattle == 2
\* The clock reads 1..MaxTime (milliseconds).
MaxTime == 2
\* Number of faults over a behaviour.  A fault is a Telegram call that raises,
\* or an answer a user sends while an answer handler of the same user is still
\* suspended (a button pressed twice).
MaxFaults == 1
\* Number of matchmaking steps over a behaviour of Spec, where battles are
\* played as well.
MaxPlayedRequests == 2
\* In Spec and SpecQueue random.shuffle is let to put the correct answer at
\* positions 0..MaxCorrectIndex of the 4.
MaxCorrectIndex == 0
\* The same for SpecVerdict.
MaxVerdictIndex == 1
\* The translations and distractors of the words table are the strings
\* 1..NumStrings.
NumStrings == 4
\* Number of rows ever inserted into pending_random_requests.
MaxRowid == 3
\* Telegram message ids 1..MaxMessageId.
MaxMessageId == 1
\* Number of rematch requests stored over a behaviour, per store.
MaxTickets == 2
\* Number of accepts, declines and cancels that pass their checks over a
\* behaviour.
MaxTaken == 2
\* The clock reads 1..MaxRebattleTime in the specification of the rematch
\* requests.
MaxRebattleTime == 3
\* Age after which a rematch request is expired.  The source fixes it at 5
\* minutes (rebate_handlers.py line 326, callback_handlers.py line 901); the
\* model scales it down to one tick of the clock.
ExpiryWindow == 1
\* Battle sessions 1..MaxSessions exist for every book and topic.
MaxSessions == 2
\* Number of matchmaking steps over a behaviour of SpecCountdown, where a
\* second battle starts for players who hold the keyboard of a first one.
MaxCountdownRequests == 4
\* Number of answers accepted over a behaviour of SpecCountdown.
MaxCountdownAnswers == 2
\* Word ids 1..MaxWordId.
MaxWordId == 3
\* Players 1..NumPendingPlayers call PendingRequestsDB in the specification
\* of the pairing sequence: two requesters and the owner of a pending row.
NumPendingPlayers == 3
\* Number of words of a battle session.  The source fixes it at 10
\* (battle_session.py lines 68 and 78); the model scales it down.
WordsPerSession == 2

(***************************************************************************)
(* Program constants.                                                      *)
(***************************************************************************)
\* word["distractors"][:3] and len(word["distractors"]) >= 3
NumDistractors == 3

Users == 1..NumUsers
ScopeKinds == {"book", "topic"}
ScopeIds == 1..MaxScopeId
BattleTypes == {"random", "friend"}
\* None for session.current_battle_id; `not battle_id` is true of None and 0.
NoBattle == 0
\* positions of the option buttons: 3 distractors and the correct answer
OptionIndexes == 0..NumDistractors
\* None for the player2_id of remove_pending_request
NoPlayer == 0
MessageIds == 1..MaxMessageId
\* None for a battle session that was not found
NoSession == 0
\* The player ids of the callers of PendingRequestsDB in the specification of
\* the pairing sequence.
PendingPlayers == 1..NumPendingPlayers
Sessions == 1..MaxSessions

VARIABLES
    now,                \* time.time() in milliseconds
    requests,           \* the matchmaking steps so far: who asked for which scope
    waiting_battles,    \* dict battle_config -> waiting entry
    active_battles,     \* dict battle_id -> reference to a battle_data dict
    heap,               \* the battle_data dicts ever created, by reference
    current_battle_id,  \* user_sessions[u].current_battle_id
    tasks,              \* bag of handlers suspended at an await
    pairings,           \* the calls of start_battle_for_players, in order
    shown,              \* the runs of show_battle_results, in order
    has_keyboard,       \* users who were sent a question keyboard
    faults,             \* failed Telegram calls and repeated presses so far
    result_delivery,    \* per run of show_battle_results: what became of the
                        \* result message of each of the two players
    delivery,           \* a question and the keyboard built for it
    pending_random_requests, \* rows of the table of PendingRequestsDB
    last_rowid,         \* the largest AUTOINCREMENT id handed out so far
    returned,           \* what the last call of a PendingRequestsDB method returned
    pending_rebattles,  \* rebate_handlers.py: dict request_id -> request
    pending_rebattle_requests, \* callback_handlers.py: dict request_id -> request
    took,               \* the accepts, declines and cancels that passed the checks
    drawn,              \* the battle sessions drawn by accepts
    uuids,              \* number of uuid.uuid4() calls so far
    battle_history,     \* rows of the table battle_history
    words,              \* rows of the table words: id and topic_id
    battle_sessions_topic, \* rows of the table battle_sessions_topic
    session_lookup,     \* what the last get_random_battle_session_topic returned
    opponent            \* per requester between its get_random_opponent and
                        \* its remove_pending_request: the row it was returned

\* The variables no handler of the battle flow reads or writes.
side_vars == <<delivery, pending_random_requests, last_rowid, returned,
               pending_rebattles, pending_rebattle_requests, took, drawn, uuids,
               battle_history, words, battle_sessions_topic, session_lookup,
               opponent>>

vars == <<now, requests, waiting_battles, active_battles, heap, current_battle_id,
          tasks, pairings, shown, has_keyboard, faults, result_delivery, side_vars>>

(***************************************************************************)
(* Python dict operations on functions.                                    *)
(***************************************************************************)
DictSet(d, k, v) == [x \in DOMAIN d \cup {k} |-> IF x = k THEN v ELSE d[x]]

DictDel(d, k) == [x \in DOMAIN d \ {k} |-> d[x]]

\* Mutant of battle_config: the topic branch builds the same key as the book
\* branch.
battle_config_book_only(scope, id) == <<"book", "_", id>>

\* f"book_{id}" and f"topic_{id}": the prefix, the separator and the digits
battle_config(scope, id) == <<scope, "_", id>>

Configs == {battle_config(s, i) : s \in ScopeKinds, i \in ScopeIds}

Spawn(t) == tasks (+) SetToBag({t})

Retire(t) == tasks (-) SetToBag({t})

\* The user has an answer handler suspended at line 433.
Answering(user_id) ==
    \E t \in BagToSet(tasks) : t.kind = "answer" /\ t.user_id = user_id

Init ==
    /\ now = 1
    /\ requests = <<>>
    /\ waiting_battles = <<>>
    /\ active_battles = <<>>
    /\ heap = <<>>
    /\ current_battle_id = [u \in Users |-> NoBattle]
    /\ tasks = EmptyBag
    /\ pairings = <<>>
    /\ shown = <<>>
    /\ has_keyboard = {}
    /\ faults = 0
    /\ result_delivery = <<>>
    /\ delivery = <<>>
    /\ pending_random_requests = {}
    /\ last_rowid = 0
    /\ returned = [method |-> "none", value |-> FALSE]
    /\ pending_rebattles = <<>>
    /\ pending_rebattle_requests = <<>>
    /\ took = <<>>
    /\ drawn = <<>>
    /\ uuids = 0
    /\ battle_history = {}
    /\ words = {}
    /\ battle_sessions_topic = {}
    /\ session_lookup = [topic_id |-> 0, found |-> FALSE, word_ids |-> {}]
    /\ opponent = [u \in PendingPlayers |-> {}]

\* time.time() advances
Tick ==
    /\ now' = now + 1
    /\ UNCHANGED <<requests, waiting_battles, active_battles, heap, current_battle_id,
                   tasks, pairings, shown, has_keyboard, faults>>
    /\ UNCHANGED <<result_delivery, side_vars>>

(***************************************************************************)
(* create_battle_session, lines 191-266.  found is the outcome of the      *)
(* session lookup of lines 195-214 (both database awaits come before the   *)
(* matchmaking step and touch no shared state).  The matchmaking step of   *)
(* lines 216-246 runs with no await between the membership test and the    *)
(* del or the insertion.                                                   *)
(***************************************************************************)
\* Mutant of Matchmake: the del of line 223 is missing.
Matchmake_without_del(u, cb, config) ==
    IF config \in DOMAIN waiting_battles
    THEN LET opponent_data == waiting_battles[config]
         IN  /\ UNCHANGED waiting_battles
             /\ pairings' = Append(pairings,
                    [callback1 |-> cb, user1 |-> u,
                     callback2 |-> opponent_data.callback,
                     user2 |-> opponent_data.user_id,
                     config |-> config, battle_id |-> now])
             /\ tasks' = Spawn([kind |-> "start", pc |-> "words",
                                callback1 |-> cb, user1 |-> u,
                                callback2 |-> opponent_data.callback,
                                user2 |-> opponent_data.user_id,
                                battle_id |-> now])
    ELSE /\ waiting_battles' = DictSet(waiting_battles, config,
                                       [user_id |-> u, callback |-> cb])
         /\ UNCHANGED <<pairings, tasks>>

Matchmake(u, cb, config) ==
    IF config \in DOMAIN waiting_battles
    THEN LET opponent_data == waiting_battles[config]
         IN  /\ waiting_battles' = DictDel(waiting_battles, config)
             /\ pairings' = Append(pairings,
                    [callback1 |-> cb, user1 |-> u,
                     callback2 |-> opponent_data.callback,
                     user2 |-> opponent_data.user_id,
                     config |-> config, battle_id |-> now])
             /\ tasks' = Spawn([kind |-> "start", pc |-> "words",
                                callback1 |-> cb, user1 |-> u,
                                callback2 |-> opponent_data.callback,
                                user2 |-> opponent_data.user_id,
                                battle_id |-> now])
    ELSE /\ waiting_battles' = DictSet(waiting_battles, config,
                                       [user_id |-> u, callback |-> cb])
         /\ UNCHANGED <<pairings, tasks>>

create_battle_session(u, scope, id, battle_type, found) ==
    /\ IF ~found
       THEN \* lines 208-214
            /\ UNCHANGED <<requests, waiting_battles, pairings, tasks>>
       ELSE IF battle_type = "random"
       THEN /\ requests' = Append(requests,
                   [user_id |-> u, scope |-> scope, id |-> id])
            /\ Matchmake(u, Len(requests) + 1, battle_config(scope, id))
       ELSE \* lines 248-258
            /\ UNCHANGED <<requests, waiting_battles, pairings, tasks>>
    /\ UNCHANGED <<now, active_battles, heap, current_battle_id, shown,
                   has_keyboard, faults>>
    /\ UNCHANGED <<result_delivery, side_vars>>

(***************************************************************************)
(* start_battle_for_players, lines 268-346.  A task of kind "start" is the *)
(* call made at line 230; its pc names the await it is suspended at:       *)
(*   words      line 274, db.get_words_with_distractors                    *)
(*   announce1  line 337, edit_text to callback1                           *)
(*   announce2  lines 338 and 341, edit_text to callback2 and the sleep    *)
(*   q1         line 342, send_question_to_player for callback1            *)
(***************************************************************************)
\* What get_words_with_distractors can return for the word ids of a session:
\* a row per word that exists, each with no distractors or with three
\* (queries.py lines 1122-1135).
WordResults ==
    UNION {[1..n -> {0, NumDistractors}] : n \in 0..QuestionsPerBattle}

\* Mutant of questions_of: the test of line 283 is missing.
questions_of_unfiltered(battle_words) ==
    [k \in 1..Len(battle_words) |->
        IF battle_words[k] < NumDistractors THEN battle_words[k] ELSE NumDistractors]

\* lines 281-289: the words with at least 3 distractors, each cut to its
\* first 3; a question is the number of its distractors
questions_of(battle_words) ==
    LET enough(d) == d >= NumDistractors
        kept == SelectSeq(battle_words, enough)
    IN  [k \in 1..Len(kept) |->
            IF kept[k] < NumDistractors THEN kept[k] ELSE NumDistractors]

\* Mutant of enough_content: the check of line 291 is missing.
enough_content_rows_only(battle_words) ==
    ~(Len(battle_words) < QuestionsPerBattle)

\* lines 276 and 291: the two early returns
enough_content(battle_words) ==
    /\ ~(Len(battle_words) < QuestionsPerBattle)
    /\ ~(Len(questions_of(battle_words)) < QuestionsPerBattle)

\* lines 299-312: the dict of one player of a new battle
new_player_data(cb) ==
    [callback |-> cb,
     answers |-> <<>>,
     start_time |-> now,
     current_question |-> 0,
     completed |-> FALSE,
     completion_time |-> <<>>,
     correct_index |-> <<>>]

\* lines 296-316.  A dict display with the same key twice keeps the last value
\* under the first position of the key.
\* the slice s[:n] of Python: the whole list when it is shorter than n
slice_to(s, n) == SubSeq(s, 1, IF Len(s) < n THEN Len(s) ELSE n)

new_battle_data(t, questions) ==
    [questions |-> slice_to(questions, QuestionsPerBattle),
     order |-> IF t.user1 = t.user2 THEN <<t.user1>> ELSE <<t.user1, t.user2>>,
     players |-> [u \in {t.user1, t.user2} |->
                    IF u = t.user2 THEN new_player_data(t.callback2)
                    ELSE new_player_data(t.callback1)],
     battle_id |-> t.battle_id]

StartStore(t, battle_words) ==
    /\ t.kind = "start" /\ t.pc = "words"
    /\ IF enough_content(battle_words)
       THEN /\ heap' = Append(heap, new_battle_data(t, questions_of(battle_words)))
            /\ active_battles' = DictSet(active_battles, t.battle_id, Len(heap) + 1)
            /\ current_battle_id' = [u \in Users |->
                   IF u \in {t.user1, t.user2} THEN t.battle_id
                   ELSE current_battle_id[u]]
            /\ tasks' = Retire(t) (+) SetToBag({[t EXCEPT !.pc = "announce1"]})
       ELSE /\ tasks' = Retire(t)
            /\ UNCHANGED <<heap, active_battles, current_battle_id>>
    /\ UNCHANGED <<now, requests, waiting_battles, pairings, shown, has_keyboard, faults>>
    /\ UNCHANGED <<result_delivery, side_vars>>

\* A Telegram call the task awaited raised: the except clause of line 345
\* logs it and the rest of the function is skipped.
StartFail(t) ==
    /\ t.kind = "start" /\ t.pc \in {"announce1", "announce2"}
    /\ faults' = faults + 1
    /\ tasks' = Retire(t)
    /\ UNCHANGED <<now, requests, waiting_battles, active_battles, heap,
                   current_battle_id, pairings, shown, has_keyboard>>
    /\ UNCHANGED <<result_delivery, side_vars>>

StartAnnounce(t) ==
    /\ t.kind = "start" /\ t.pc = "announce1"
    /\ tasks' = Retire(t) (+) SetToBag({[t EXCEPT !.pc = "announce2"]})
    /\ UNCHANGED <<now, requests, waiting_battles, active_battles, heap,
                   current_battle_id, pairings, shown, has_keyboard, faults>>
    /\ UNCHANGED <<result_delivery, side_vars>>

\* The positions 0..max of the option buttons.
Positions(max) == {i \in OptionIndexes : i <= max}

\* words.translation and word_distractors.distractor_1..3 are TEXT NOT NULL
\* with no other constraint (queries.py lines 91-115).
Strings == 1..NumStrings

\* list.index(x) of Python, counted from 0: the first position that holds x
index(list, x) ==
    (CHOOSE i \in 1..Len(list) :
        list[i] = x /\ \A j \in 1..(i - 1) : list[j] # x) - 1

\* shuffle_answer_options, lines 37-42: every order random.shuffle can leave
\* the 4 options in, each with options.index(correct_answer).
shuffle_answer_options(correct_answer, distractors) ==
    LET options == distractors \o <<correct_answer>>
    IN  {[options |-> [i \in 1..Len(options) |-> options[shuffle[i]]],
          correct_index |->
              index([i \in 1..Len(options) |-> options[shuffle[i]]], correct_answer)] :
         shuffle \in Permutations(1..Len(options))}

\* Lines 362-383 of send_question_to_player for one question: the options are
\* shuffled, the correct index is stored and the keyboard built from the
\* options (button i carries answer_{i}) is sent.
ShuffleQuestion(correct_answer, distractors) ==
    /\ \E shuffled \in shuffle_answer_options(correct_answer, distractors) :
           delivery' = [correct_answer |-> correct_answer,
                        distractors |-> distractors,
                        options |-> shuffled.options,
                        correct_index |-> shuffled.correct_index]
    /\ UNCHANGED <<now, requests, waiting_battles, active_battles, heap,
                   current_battle_id, tasks, pairings, shown, has_keyboard, faults,
                   result_delivery, pending_random_requests, last_rowid, returned,
                   pending_rebattles, pending_rebattle_requests, took, drawn, uuids,
                   battle_history, words, battle_sessions_topic, session_lookup,
                   opponent>>

(***************************************************************************)
(* send_question_to_player, lines 348-386, up to its await of edit_text.   *)
(* An error of that edit_text is swallowed by line 385.  h is the heap as  *)
(* the caller left it; correct_index is what shuffle_answer_options        *)
(* returned as the position of the correct answer.                         *)
(***************************************************************************)
\* Mutant of send_question_to_player: line 371 stores the index in the dict
\* of every player of the battle.
send_question_to_every_player(h, user_id, battle_id, question_index, correct_index) ==
    IF /\ battle_id \in DOMAIN active_battles
       /\ user_id \in DOMAIN h[active_battles[battle_id]].players
       /\ LET battle_data == h[active_battles[battle_id]]
          IN  ~(\/ question_index >= Len(battle_data.questions)
                \/ battle_data.players[user_id].completed)
    THEN /\ heap' = [h EXCEPT ![active_battles[battle_id]].players =
                [u \in DOMAIN @ |->
                    [@[u] EXCEPT !.correct_index =
                        DictSet(@, question_index, correct_index)]]]
         /\ has_keyboard' = has_keyboard \cup {user_id}
    ELSE /\ heap' = h
         /\ UNCHANGED has_keyboard

send_question_to_player(h, user_id, battle_id, question_index, correct_index) ==
    IF /\ battle_id \in DOMAIN active_battles
       /\ user_id \in DOMAIN h[active_battles[battle_id]].players
       /\ LET battle_data == h[active_battles[battle_id]]
          IN  ~(\/ question_index >= Len(battle_data.questions)
                \/ battle_data.players[user_id].completed)
    THEN /\ heap' = [h EXCEPT
                ![active_battles[battle_id]].players[user_id].correct_index =
                    DictSet(@, question_index, correct_index)]
         /\ has_keyboard' = has_keyboard \cup {user_id}
    ELSE /\ heap' = h
         /\ UNCHANGED has_keyboard

StartFirstQuestion(t, correct_index) ==
    /\ t.kind = "start" /\ t.pc = "announce2"
    /\ send_question_to_player(heap, t.user1, t.battle_id, 0, correct_index)
    /\ tasks' = Retire(t) (+) SetToBag({[t EXCEPT !.pc = "q1"]})
    /\ UNCHANGED <<now, requests, waiting_battles, active_battles,
                   current_battle_id, pairings, shown, faults>>
    /\ UNCHANGED <<result_delivery, side_vars>>

StartSecondQuestion(t, correct_index) ==
    /\ t.kind = "start" /\ t.pc = "q1"
    /\ send_question_to_player(heap, t.user2, t.battle_id, 0, correct_index)
    /\ tasks' = Retire(t)
    /\ UNCHANGED <<now, requests, waiting_battles, active_battles,
                   current_battle_id, pairings, shown, faults>>
    /\ UNCHANGED <<result_delivery, side_vars>>

(***************************************************************************)
(* answer_handler, lines 388-466, from its start to its first await.  The  *)
(* answer is appended before the await of callback.answer(feedback) at     *)
(* line 433; current_question is advanced after it (AnswerResume).         *)
(***************************************************************************)
Score(answers) == Cardinality({k \in 1..Len(answers) : answers[k].is_correct})

\* Mutant of answer_outcome: the check of lines 405-407 is missing.
answer_outcome_without_completed(user_id) ==
    LET battle_id == current_battle_id[user_id]
    IN  IF battle_id = NoBattle \/ battle_id \notin DOMAIN active_battles
        THEN "battle_not_found"
        ELSE LET battle_data == heap[active_battles[battle_id]]
             IN  IF user_id \notin DOMAIN battle_data.players
                 THEN "error"
                 ELSE LET player_data == battle_data.players[user_id]
                      IN  IF player_data.current_question
                                 \notin DOMAIN player_data.correct_index
                          THEN "error"
                          ELSE "accepted"

\* Mutant of answer_outcome: a missing correct_index_{current_q} is no error
\* (line 410 reads it with a default).
answer_outcome_without_key(user_id) ==
    LET battle_id == current_battle_id[user_id]
    IN  IF battle_id = NoBattle \/ battle_id \notin DOMAIN active_battles
        THEN "battle_not_found"
        ELSE LET battle_data == heap[active_battles[battle_id]]
             IN  IF user_id \notin DOMAIN battle_data.players
                 THEN "error"
                 ELSE IF battle_data.players[user_id].completed
                 THEN "already_completed"
                 ELSE "accepted"

\* What answer_handler answers to an answer of user_id in the current state,
\* lines 395-410: the early returns and the KeyErrors handled at lines 464-466.
answer_outcome(user_id) ==
    LET battle_id == current_battle_id[user_id]
    IN  IF battle_id = NoBattle \/ battle_id \notin DOMAIN active_battles
        THEN "battle_not_found"
        ELSE LET battle_data == heap[active_battles[battle_id]]
             IN  IF user_id \notin DOMAIN battle_data.players
                 THEN "error"
                 ELSE LET player_data == battle_data.players[user_id]
                      IN  IF player_data.completed
                          THEN "already_completed"
                          ELSE IF player_data.current_question
                                      \notin DOMAIN player_data.correct_index
                          THEN "error"
                          ELSE "accepted"

\* Mutant of is_correct: the answer is compared with the correct index of
\* the first player of the battle.
is_correct_of_first_player(battle_data, user_id, answer_index) ==
    LET player_data == battle_data.players[battle_data.order[1]]
        current_q == battle_data.players[user_id].current_question
    IN  current_q \in DOMAIN player_data.correct_index
        /\ answer_index = player_data.correct_index[current_q]

\* lines 409-413: the verdict on an answer
is_correct(battle_data, user_id, answer_index) ==
    LET player_data == battle_data.players[user_id]
        current_q == player_data.current_question
    IN  answer_index = player_data.correct_index[current_q]

answer_handler(user_id, answer_index) ==
    /\ user_id \in has_keyboard
    /\ IF answer_outcome(user_id) = "accepted"
       THEN \* lines 409-433
            LET battle_id == current_battle_id[user_id]
                ref == active_battles[battle_id]
                player_data == heap[ref].players[user_id]
                current_q == player_data.current_question
            IN  /\ faults' = IF Answering(user_id) THEN faults + 1 ELSE faults
                /\ heap' = [heap EXCEPT ![ref].players[user_id].answers =
                       Append(@, [question_index |-> current_q,
                                  is_correct |->
                                      is_correct(heap[ref], user_id, answer_index)])]
                /\ tasks' = Spawn([kind |-> "answer", pc |-> "feedback",
                                   user_id |-> user_id,
                                   battle_id |-> battle_id,
                                   ref |-> ref])
       ELSE UNCHANGED <<heap, tasks, faults>>
    /\ UNCHANGED <<now, requests, waiting_battles, active_battles, current_battle_id,
                   pairings, shown, has_keyboard>>
    /\ UNCHANGED <<result_delivery, side_vars>>

\* callback.answer(feedback) raised: lines 464-466, current_question is not
\* advanced.
AnswerFail(t) ==
    /\ t.kind = "answer"
    /\ faults' = faults + 1
    /\ tasks' = Retire(t)
    /\ UNCHANGED <<now, requests, waiting_battles, active_battles, heap,
                   current_battle_id, pairings, shown, has_keyboard>>
    /\ UNCHANGED <<result_delivery, side_vars>>

(***************************************************************************)
(* show_battle_results, lines 468-515, from its start to its first await   *)
(* (line 502).  winner is the player whose first name is put in the        *)
(* message, 0 for "Draw!".                                                 *)
(***************************************************************************)
winner_of(player1_id, player1_score, player2_id, player2_score) ==
    IF player1_score > player2_score THEN player1_id
    ELSE IF player2_score > player1_score THEN player2_id
    ELSE 0

battle_result(ref, battle_data) ==
    LET player1_id == battle_data.order[1]
        player2_id == battle_data.order[2]
        player1_data == battle_data.players[player1_id]
        player2_data == battle_data.players[player2_id]
        player1_score == Score(player1_data.answers)
        player2_score == Score(player2_data.answers)
    IN  [ref |-> ref,
         player1_id |-> player1_id, player2_id |-> player2_id,
         player1_score |-> player1_score, player2_score |-> player2_score,
         player1_time |-> player1_data.completion_time[1],
         player2_time |-> player2_data.completion_time[1],
         winner |-> winner_of(player1_id, player1_score, player2_id, player2_score)]

\* Mutant of AnswerResume: the branch of lines 450-459 deletes the battle.
AnswerResume_waiting_deletes(t, correct_index) ==
    /\ t.kind = "answer"
    /\ LET user_id == t.user_id
           advanced == [heap EXCEPT ![t.ref].players[user_id].current_question = @ + 1]
           battle_data == advanced[t.ref]
           player_data == battle_data.players[user_id]
       IN  IF player_data.current_question >= Len(battle_data.questions)
           THEN LET done == [advanced EXCEPT
                        ![t.ref].players[user_id].completed = TRUE,
                        ![t.ref].players[user_id].completion_time =
                            <<now - player_data.start_time>>]
                    others == SelectSeq(battle_data.order, LAMBDA pid : pid # user_id)
                IN  /\ heap' = done
                    /\ IF others = <<>>
                       THEN /\ tasks' = Retire(t)
                            /\ UNCHANGED <<shown, result_delivery, has_keyboard,
                                           active_battles>>
                       ELSE IF done[t.ref].players[others[1]].completed
                       THEN \* line 449
                            /\ shown' = Append(shown, battle_result(t.ref, done[t.ref]))
                            /\ result_delivery' = Append(result_delivery,
                                   [player1 |-> "pending", player2 |-> "pending"])
                            /\ tasks' = Retire(t) (+)
                                   SetToBag({[kind |-> "results", pc |-> "result1",
                                              ref |-> t.ref, run |-> Len(shown) + 1]})
                            /\ UNCHANGED <<has_keyboard, active_battles>>
                       ELSE /\ tasks' = Retire(t)
                            /\ active_battles' =
                                   DictDel(active_battles, battle_data.battle_id)
                            /\ UNCHANGED <<shown, result_delivery, has_keyboard>>
           ELSE \* line 462; the call looks the battle up again by its id
                /\ send_question_to_player(advanced, user_id, t.battle_id,
                                           player_data.current_question,
                                           correct_index)
                /\ tasks' = Retire(t)
                /\ UNCHANGED <<shown, result_delivery, active_battles>>
    /\ UNCHANGED <<now, requests, waiting_battles, current_battle_id, pairings,
                   faults>>
    /\ UNCHANGED side_vars

\* The rest of answer_handler, lines 436-462, after callback.answer returned.
AnswerResume(t, correct_index) ==
    /\ t.kind = "answer"
    /\ LET user_id == t.user_id
           advanced == [heap EXCEPT ![t.ref].players[user_id].current_question = @ + 1]
           battle_data == advanced[t.ref]
           player_data == battle_data.players[user_id]
       IN  IF player_data.current_question >= Len(battle_data.questions)
           THEN LET done == [advanced EXCEPT
                        ![t.ref].players[user_id].completed = TRUE,
                        ![t.ref].players[user_id].completion_time =
                            <<now - player_data.start_time>>]
                    others == SelectSeq(battle_data.order, LAMBDA pid : pid # user_id)
                IN  /\ heap' = done
                    /\ IF others = <<>>
                       THEN \* IndexError at line 444, handled at lines 464-466
                            /\ tasks' = Retire(t)
                            /\ UNCHANGED <<shown, result_delivery, has_keyboard>>
                       ELSE IF done[t.ref].players[others[1]].completed
                       THEN \* line 449
                            /\ shown' = Append(shown, battle_result(t.ref, done[t.ref]))
                            /\ result_delivery' = Append(result_delivery,
                                   [player1 |-> "pending", player2 |-> "pending"])
                            /\ tasks' = Retire(t) (+)
                                   SetToBag({[kind |-> "results", pc |-> "result1",
                                              ref |-> t.ref, run |-> Len(shown) + 1]})
                            /\ UNCHANGED has_keyboard
                       ELSE \* lines 452-459
                            /\ tasks' = Retire(t)
                            /\ UNCHANGED <<shown, result_delivery, has_keyboard>>
           ELSE \* line 462; the call looks the battle up again by its id
                /\ send_question_to_player(advanced, user_id, t.battle_id,
                                           player_data.current_question,
                                           correct_index)
                /\ tasks' = Retire(t)
                /\ UNCHANGED <<shown, result_delivery>>
    /\ UNCHANGED <<now, requests, waiting_battles, active_battles, current_battle_id,
                   pairings, faults>>
    /\ UNCHANGED side_vars

(***************************************************************************)
(* The rest of show_battle_results.  A task of kind "results" is suspended *)
(* at line 502 (pc result1) or at line 506 (pc result2); run is the number *)
(* of the call.  result_delivery records per call whether the result      *)
(* message reached player 1 and player 2: "pending" before the edit_text   *)
(* returned, "sent" when it returned, "failed" when it raised.             *)
(***************************************************************************)
ResultsSecond(t) ==
    /\ t.kind = "results" /\ t.pc = "result1"
    /\ result_delivery' = [result_delivery EXCEPT ![t.run].player1 = "sent"]
    /\ tasks' = Retire(t) (+) SetToBag({[t EXCEPT !.pc = "result2"]})
    /\ UNCHANGED <<now, requests, waiting_battles, active_battles, heap,
                   current_battle_id, pairings, shown, has_keyboard, faults>>
    /\ UNCHANGED side_vars

\* line 512; a KeyError of the del is swallowed by line 514
ResultsCleanup(t) ==
    /\ t.kind = "results" /\ t.pc = "result2"
    /\ result_delivery' = [result_delivery EXCEPT ![t.run].player2 = "sent"]
    /\ active_battles' = DictDel(active_battles, heap[t.ref].battle_id)
    /\ tasks' = Retire(t)
    /\ UNCHANGED <<now, requests, waiting_battles, heap, current_battle_id,
                   pairings, shown, has_keyboard, faults>>
    /\ UNCHANGED side_vars

\* An edit_text of show_battle_results raised: line 514, nothing is deleted.
ResultsFail(t) ==
    /\ t.kind = "results"
    /\ faults' = faults + 1
    /\ result_delivery' =
           IF t.pc = "result1"
           THEN [result_delivery EXCEPT ![t.run].player1 = "failed"]
           ELSE [result_delivery EXCEPT ![t.run].player2 = "failed"]
    /\ tasks' = Retire(t)
    /\ UNCHANGED <<now, requests, waiting_battles, active_battles, heap,
                   current_battle_id, pairings, shown, has_keyboard>>
    /\ UNCHANGED side_vars

\* back_to_main_handler, lines 44-54: clear_user_session drops the session,
\* the next get_user_session makes a fresh one.
back_to_main_handler(u) ==
    /\ current_battle_id' = [current_battle_id EXCEPT ![u] = NoBattle]
    /\ UNCHANGED <<now, requests, waiting_battles, active_battles, heap, tasks,
                   pairings, shown, has_keyboard, faults>>
    /\ UNCHANGED <<result_delivery, side_vars>>

(***************************************************************************)
(* The next-state relations: the handler steps, with the bounds of the     *)
(* model as guards.  Matchmaking is every step up to the delivery of the   *)
(* first questions; Next adds the answers and the results.                 *)
(***************************************************************************)
Request(limit) ==
    \E u \in Users, s \in ScopeKinds, i \in ScopeIds, bt \in BattleTypes,
       found \in BOOLEAN :
        /\ (found /\ bt = "random") => Len(requests) < limit
        /\ create_battle_session(u, s, i, bt, found)

Starting ==
    \/ \E t \in BagToSet(tasks), w \in WordResults : StartStore(t, w)
    \/ \E t \in BagToSet(tasks) : faults < MaxFaults /\ StartFail(t)
    \/ \E t \in BagToSet(tasks) : StartAnnounce(t)
    \/ \E t \in BagToSet(tasks), i \in Positions(MaxCorrectIndex) :
            StartFirstQuestion(t, i)
    \/ \E t \in BagToSet(tasks), i \in Positions(MaxCorrectIndex) :
            StartSecondQuestion(t, i)

Leaving == \E u \in Users : back_to_main_handler(u)

Answers ==
    \/ \E u \in Users, a \in OptionIndexes :
            /\ Answering(u) => faults < MaxFaults
            /\ answer_handler(u, a)
    \/ \E t \in BagToSet(tasks) : faults < MaxFaults /\ AnswerFail(t)
    \/ \E t \in BagToSet(tasks), i \in Positions(MaxCorrectIndex) :
            AnswerResume(t, i)

Results ==
    \/ \E t \in BagToSet(tasks) : ResultsSecond(t)
    \/ \E t \in BagToSet(tasks) : ResultsCleanup(t)
    \/ \E t \in BagToSet(tasks) : faults < MaxFaults /\ ResultsFail(t)

NextQueue ==
    \/ now < MaxTime /\ Tick
    \/ Request(MaxRequests)
    \/ Starting
    \/ Leaving

Next ==
    \/ now < MaxTime /\ Tick
    \/ Request(MaxPlayedRequests)
    \/ Starting
    \/ Leaving
    \/ Answers
    \/ Results

\* The whole program, one battle at most.
Spec == Init /\ [][Next]_vars

\* Matchmaking and the start of battles, no answers.
SpecQueue == Init /\ [][NextQueue]_vars

\* One battle with no fault, no clock and nobody leaving, the correct answer
\* at positions 0..MaxVerdictIndex.
NextVerdict ==
    \/ Request(MaxPlayedRequests)
    \/ \E t \in BagToSet(tasks), w \in WordResults : StartStore(t, w)
    \/ \E t \in BagToSet(tasks) : StartAnnounce(t)
    \/ \E t \in BagToSet(tasks), i \in Positions(MaxVerdictIndex) :
            StartFirstQuestion(t, i)
    \/ \E t \in BagToSet(tasks), i \in Positions(MaxVerdictIndex) :
            StartSecondQuestion(t, i)
    \/ \E u \in Users, a \in OptionIndexes : ~Answering(u) /\ answer_handler(u, a)
    \/ \E t \in BagToSet(tasks), i \in Positions(MaxVerdictIndex) :
            AnswerResume(t, i)
    \/ \E t \in BagToSet(tasks) : ResultsSecond(t)
    \/ \E t \in BagToSet(tasks) : ResultsCleanup(t)

SpecVerdict == Init /\ [][NextVerdict]_vars

\* One battle in which no Telegram call and no lookup fails and no button
\* is pressed twice.  The event loop resumes every suspended handler, and a
\* player who can answer does.
LiveStart ==
    \/ \E t \in BagToSet(tasks), w \in WordResults : StartStore(t, w)
    \/ \E t \in BagToSet(tasks) : StartAnnounce(t)
    \/ \E t \in BagToSet(tasks), i \in Positions(MaxCorrectIndex) :
            StartFirstQuestion(t, i)
    \/ \E t \in BagToSet(tasks), i \in Positions(MaxCorrectIndex) :
            StartSecondQuestion(t, i)

LiveAnswer(u) ==
    \E a \in OptionIndexes : ~Answering(u) /\ answer_handler(u, a)

LiveResume ==
    \E t \in BagToSet(tasks), i \in Positions(MaxCorrectIndex) : AnswerResume(t, i)

LiveResults ==
    \/ \E t \in BagToSet(tasks) : ResultsSecond(t)
    \/ \E t \in BagToSet(tasks) : ResultsCleanup(t)

NextLive ==
    \/ now < MaxTime /\ Tick
    \/ Request(MaxPlayedRequests)
    \/ LiveStart
    \/ \E u \in Users : LiveAnswer(u)
    \/ LiveResume
    \/ LiveResults

SpecLive ==
    /\ Init /\ [][NextLive]_vars
    /\ WF_vars(LiveStart)
    /\ \A u \in Users : WF_vars(LiveAnswer(u))
    /\ WF_vars(LiveResume)
    /\ WF_vars(LiveResults)

\* The battle flow when players may stop answering: the clock advances and
\* every handler that is suspended at an await is resumed, but no press of an
\* answer button is ever due.
SpecAbandon ==
    /\ Init /\ [][NextLive]_vars
    /\ WF_vars(now < MaxTime /\ Tick)
    /\ WF_vars(LiveStart)
    /\ WF_vars(LiveResume)
    /\ WF_vars(LiveResults)

\* The answer records of all battles: battle, player and position.
AnswersSoFar ==
    UNION {{<<ref, u, k>> : k \in DOMAIN heap[ref].players[u].answers} :
           <<ref, u>> \in {x \in (DOMAIN heap) \X Users : x[2] \in DOMAIN heap[x[1]].players}}

\* Battles for one book one after the other, with no fault and nobody
\* leaving: a player of a battle that starts can hold the question keyboard
\* of an earlier battle.
NextCountdown ==
    \/ now < MaxTime /\ Tick
    \/ \E u \in Users, i \in ScopeIds :
            /\ Len(requests) < MaxCountdownRequests
            /\ create_battle_session(u, "book", i, "random", TRUE)
    \/ \E t \in BagToSet(tasks), w \in WordResults : StartStore(t, w)
    \/ \E t \in BagToSet(tasks) : StartAnnounce(t)
    \/ \E t \in BagToSet(tasks), i \in Positions(MaxCorrectIndex) :
            StartFirstQuestion(t, i)
    \/ \E t \in BagToSet(tasks), i \in Positions(MaxCorrectIndex) :
            StartSecondQuestion(t, i)
    \/ \E u \in Users, a \in OptionIndexes :
            /\ ~Answering(u)
            /\ Cardinality(AnswersSoFar) < MaxCountdownAnswers
            /\ answer_handler(u, a)
    \/ \E t \in BagToSet(tasks), i \in Positions(MaxCorrectIndex) :
            AnswerResume(t, i)

SpecCountdown == Init /\ [][NextCountdown]_vars

(***************************************************************************)
(* PendingRequestsDB, src/database/pending_requests.py.  Every method runs *)
(* its statements on a connection of its own and commits once, so a call   *)
(* is one step on the table.  A row is [id, player_id, message_id,         *)
(* battle_config]; player_id is UNIQUE.                                    *)
(***************************************************************************)
SideUnchanged ==
    UNCHANGED <<now, requests, waiting_battles, active_battles, heap,
                current_battle_id, tasks, pairings, shown, has_keyboard, faults,
                result_delivery, delivery, pending_rebattles,
                pending_rebattle_requests, took, drawn, uuids, battle_history,
                words, battle_sessions_topic, session_lookup>>

\* Mutant of add_pending_request: the DELETE of lines 33-36 is missing.
add_pending_request_insert_only(player_id, message_id, config) ==
    /\ pending_random_requests' =
           pending_random_requests
           \cup {[id |-> last_rowid + 1, player_id |-> player_id,
                  message_id |-> message_id, battle_config |-> config]}
    /\ last_rowid' = last_rowid + 1
    /\ returned' = [method |-> "add_pending_request", value |-> TRUE]
    /\ SideUnchanged

\* lines 25-50: DELETE of the player's row, then INSERT
add_pending_request(player_id, message_id, config) ==
    /\ pending_random_requests' =
           {r \in pending_random_requests : r.player_id # player_id}
           \cup {[id |-> last_rowid + 1, player_id |-> player_id,
                  message_id |-> message_id, battle_config |-> config]}
    /\ last_rowid' = last_rowid + 1
    /\ returned' = [method |-> "add_pending_request", value |-> TRUE]
    /\ SideUnchanged

\* lines 52-77: a row of the config that is not the requesting player's, or
\* False
get_random_opponent(requesting_player_id, config) ==
    LET opponents == {r \in pending_random_requests :
                         /\ r.battle_config = config
                         /\ r.player_id # requesting_player_id}
    IN  /\ IF opponents = {}
           THEN returned' = [method |-> "get_random_opponent", value |-> FALSE]
           ELSE \E result \in opponents :
                    returned' = [method |-> "get_random_opponent", value |-> result]
        /\ UNCHANGED <<pending_random_requests, last_rowid>>
        /\ SideUnchanged

\* Mutant of remove_pending_request: the DELETE of
\* remove_pending_request_by_id, WHERE id = ?.
remove_pending_request_where_id(player1_id, player2_id) ==
    LET deleted == {r \in pending_random_requests : r.id \in {player1_id, player2_id}}
    IN  /\ pending_random_requests' = pending_random_requests \ deleted
        /\ returned' = [method |-> "remove_pending_request",
                        value |-> Cardinality(deleted) > 0]
        /\ UNCHANGED last_rowid
        /\ SideUnchanged

\* lines 79-121: player2_id is NoPlayer when the argument is left out
remove_pending_request(player1_id, player2_id) ==
    LET deleted == IF player2_id # NoPlayer
                   THEN {r \in pending_random_requests :
                            r.player_id \in {player1_id, player2_id}}
                   ELSE {r \in pending_random_requests : r.player_id = player1_id}
    IN  /\ pending_random_requests' = pending_random_requests \ deleted
        /\ returned' = [method |-> "remove_pending_request",
                        value |-> Cardinality(deleted) > 0]
        /\ UNCHANGED last_rowid
        /\ SideUnchanged

NextPending ==
    \/ \E player_id \in Users, message_id \in MessageIds, config \in Configs :
            /\ last_rowid < MaxRowid
            /\ add_pending_request(player_id, message_id, config)
            /\ UNCHANGED opponent
    \/ \E player_id \in Users, config \in Configs :
            get_random_opponent(player_id, config) /\ UNCHANGED opponent
    \/ \E player1_id \in Users, player2_id \in Users \cup {NoPlayer} :
            remove_pending_request(player1_id, player2_id) /\ UNCHANGED opponent

SpecPending == Init /\ [][NextPending]_vars

(***************************************************************************)
(* The pairing sequence on PendingRequestsDB: a requester calls            *)
(* get_random_opponent and, when a row came back, remove_pending_request   *)
(* for itself and the row's player.  Each method opens its own connection  *)
(* (lines 56 and 83) and is one step; other callers run between the two.   *)
(***************************************************************************)
\* A player waits: add_pending_request, lines 25-50.
PairingWait(player_id, message_id, config) ==
    /\ opponent[player_id] = {}
    /\ add_pending_request(player_id, message_id, config)
    /\ UNCHANGED opponent

\* First call of the sequence: get_random_opponent, lines 52-77.
PairingLookup(requesting_player_id, config) ==
    /\ opponent[requesting_player_id] = {}
    /\ get_random_opponent(requesting_player_id, config)
    /\ opponent' = [opponent EXCEPT ![requesting_player_id] =
                        IF \A r \in pending_random_requests :
                               \/ r.battle_config # config
                               \/ r.player_id = requesting_player_id
                        THEN {}
                        ELSE {returned'.value}]

\* Second call of the sequence: remove_pending_request, lines 79-121.
PairingRemove(requesting_player_id) ==
    /\ opponent[requesting_player_id] # {}
    /\ \E row \in opponent[requesting_player_id] :
           remove_pending_request(requesting_player_id, row.player_id)
    /\ opponent' = [opponent EXCEPT ![requesting_player_id] = {}]

NextPairing ==
    \/ \E player_id \in PendingPlayers, message_id \in MessageIds, config \in Configs :
            last_rowid < MaxRowid /\ PairingWait(player_id, message_id, config)
    \/ \E player_id \in PendingPlayers, config \in Configs :
            PairingLookup(player_id, config)
    \/ \E player_id \in PendingPlayers : PairingRemove(player_id)

SpecPairing == Init /\ [][NextPairing]_vars

(***************************************************************************)
(* The rematch requests of src/handlers/rebate_handlers.py.  A request id  *)
(* is the tuple <<n>> for the n-th uuid.  The field played of a request is *)
(* not in the program: it is the number of the battle session of the       *)
(* battle whose results message carried the rematch button.                *)
(***************************************************************************)
RebattleUnchanged ==
    UNCHANGED <<requests, waiting_battles, active_battles, heap,
                current_battle_id, pairings, shown, has_keyboard, faults,
                result_delivery, delivery, pending_random_requests, last_rowid,
                returned, battle_history, words, battle_sessions_topic,
                session_lookup, opponent>>

\* lines 37-63: the request is stored before the first await; the task is the
\* rest of the handler, suspended in the awaits of lines 72-102
rebattle_request_handler(u, current_user_id, opponent_id, config, played) ==
    /\ IF u # current_user_id
       THEN UNCHANGED <<pending_rebattles, uuids, tasks>>
       ELSE /\ uuids' = uuids + 1
            /\ pending_rebattles' = DictSet(pending_rebattles, <<uuids + 1>>,
                   [requester_id |-> current_user_id, opponent_id |-> opponent_id,
                    battle_config |-> config, timestamp |-> now,
                    played |-> played])
            /\ tasks' = Spawn([kind |-> "rebattle", request_id |-> <<uuids + 1>>])
    /\ UNCHANGED <<now, pending_rebattle_requests, took, drawn>>
    /\ RebattleUnchanged

\* lines 84-102 went through
RebattleSent(t) ==
    /\ t.kind = "rebattle"
    /\ tasks' = Retire(t)
    /\ UNCHANGED <<now, pending_rebattles, pending_rebattle_requests, took, drawn,
                   uuids>>
    /\ RebattleUnchanged

\* lines 104-112: a Telegram call raised; the request is dropped only for
\* "chat not found" and "user is deactivated"
RebattleSendFail(t, chat_not_found) ==
    /\ t.kind = "rebattle"
    /\ pending_rebattles' = IF chat_not_found
                            THEN DictDel(pending_rebattles, t.request_id)
                            ELSE pending_rebattles
    /\ tasks' = Retire(t)
    /\ UNCHANGED <<now, pending_rebattle_requests, took, drawn, uuids>>
    /\ RebattleUnchanged

\* Mutant of rebattle_outcome: the comparison with callback.from_user.id is
\* missing.
rebattle_outcome_anyone(u, request_id, role) ==
    IF request_id \notin DOMAIN pending_rebattles THEN "expired" ELSE "taken"

\* The checks at the head of accept_rebattle_handler (124-134),
\* decline_rebattle_handler (216-226) and cancel_rebattle_handler (267-280);
\* role is the field of the request the user is compared with.
rebattle_outcome(u, request_id, role) ==
    IF request_id \notin DOMAIN pending_rebattles THEN "expired"
    ELSE IF u # pending_rebattles[request_id][role] THEN "invalid"
    ELSE "taken"

\* What an accept, decline or cancel that passed the checks adds to took.
Taken(op, request_id, request_data) ==
    Append(took, [op |-> op, request_id |-> request_id,
                  age |-> now - request_data.timestamp])

\* lines 118-147, up to the await of the session lookup
accept_rebattle_handler(u, request_id) ==
    /\ IF rebattle_outcome(u, request_id, "opponent_id") = "taken"
       THEN LET request_data == pending_rebattles[request_id]
            IN  /\ took' = Taken("accept", request_id, request_data)
                /\ tasks' = Spawn([kind |-> "accept", pc |-> "session",
                                   request_id |-> request_id,
                                   played |-> request_data.played])
       ELSE UNCHANGED <<took, tasks>>
    /\ UNCHANGED <<now, pending_rebattles, pending_rebattle_requests, drawn, uuids>>
    /\ RebattleUnchanged

\* lines 147-204 after the lookups.  Without a session the handler awaits
\* two replies (156-157).  With a session db.create_battle of line 163 is
\* looked up on VocabularyBattleDB, which has no such method: the
\* AttributeError is handled at lines 200-204, which drop the request.
AcceptSession(t, session) ==
    /\ t.kind = "accept" /\ t.pc = "session"
    /\ IF session = NoSession
       THEN /\ tasks' = Retire(t) (+) SetToBag({[t EXCEPT !.pc = "unavailable"]})
            /\ UNCHANGED <<pending_rebattles, drawn>>
       ELSE /\ drawn' = Append(drawn, [request_id |-> t.request_id,
                                       session |-> session, played |-> t.played])
            /\ pending_rebattles' = DictDel(pending_rebattles, t.request_id)
            /\ tasks' = Retire(t)
    /\ UNCHANGED <<now, pending_rebattle_requests, took, uuids>>
    /\ RebattleUnchanged

\* line 159, or lines 203-204 when a reply raised or the request is gone
AcceptUnavailable(t) ==
    /\ t.kind = "accept" /\ t.pc = "unavailable"
    /\ pending_rebattles' = DictDel(pending_rebattles, t.request_id)
    /\ tasks' = Retire(t)
    /\ UNCHANGED <<now, pending_rebattle_requests, took, drawn, uuids>>
    /\ RebattleUnchanged

\* lines 210-231, up to the await of edit_text
decline_rebattle_handler(u, request_id) ==
    /\ IF rebattle_outcome(u, request_id, "opponent_id") = "taken"
       THEN /\ took' = Taken("decline", request_id, pending_rebattles[request_id])
            /\ tasks' = Spawn([kind |-> "decline", request_id |-> request_id])
       ELSE UNCHANGED <<took, tasks>>
    /\ UNCHANGED <<now, pending_rebattles, pending_rebattle_requests, drawn, uuids>>
    /\ RebattleUnchanged

\* lines 261-283, up to the await of edit_text
cancel_rebattle_handler(u, request_id) ==
    /\ IF rebattle_outcome(u, request_id, "requester_id") = "taken"
       THEN /\ took' = Taken("cancel", request_id, pending_rebattles[request_id])
            /\ tasks' = Spawn([kind |-> "cancel", request_id |-> request_id])
       ELSE UNCHANGED <<took, tasks>>
    /\ UNCHANGED <<now, pending_rebattles, pending_rebattle_requests, drawn, uuids>>
    /\ RebattleUnchanged

\* lines 239-254 and 289-303: the del after the awaits; its KeyError when the
\* request is gone is handled at lines 257 and 306
ReplyDone(t) ==
    /\ t.kind \in {"decline", "cancel"}
    /\ pending_rebattles' = DictDel(pending_rebattles, t.request_id)
    /\ tasks' = Retire(t)
    /\ UNCHANGED <<now, pending_rebattle_requests, took, drawn, uuids>>
    /\ RebattleUnchanged

\* the edit_text of line 231 or 283 raised: lines 257 and 306, the request
\* stays
ReplyFail(t) ==
    /\ t.kind \in {"decline", "cancel"}
    /\ tasks' = Retire(t)
    /\ UNCHANGED <<now, pending_rebattles, pending_rebattle_requests, took, drawn,
                   uuids>>
    /\ RebattleUnchanged

\* lines 320-332
cleanup_expired_rebattles ==
    /\ pending_rebattles' =
           [request_id \in {r \in DOMAIN pending_rebattles :
                               ~(now - pending_rebattles[r].timestamp > ExpiryWindow)}
               |-> pending_rebattles[request_id]]
    /\ UNCHANGED <<now, tasks, pending_rebattle_requests, took, drawn, uuids>>
    /\ RebattleUnchanged

(***************************************************************************)
(* The rematch requests of src/handlers/callback_handlers.py, lines        *)
(* 643-908.  A request id is f"{requester_id}_{opponent_id}_{seconds}",    *)
(* the tuple of the three.  Each handler deletes the request before its    *)
(* first await, so each is one step.                                       *)
(***************************************************************************)
\* lines 649-678.  callback.data.split("_", 3) leaves the opponent id and
\* whatever follows it in one part, so only data with no scope passes
\* int() and scope_display is "Unknown".
handle_rebattle_request(u, requester_id, opponent_id) ==
    /\ pending_rebattle_requests' =
           IF u # requester_id
           THEN pending_rebattle_requests
           ELSE DictSet(pending_rebattle_requests, <<requester_id, opponent_id, now>>,
                        [requester_id |-> requester_id, opponent_id |-> opponent_id,
                         timestamp |-> now])
    /\ UNCHANGED <<now, tasks, pending_rebattles, took, drawn, uuids>>
    /\ RebattleUnchanged

\* The checks at the head of handle_rebattle_accept (700-712),
\* handle_rebattle_decline (751-762) and handle_rebattle_cancel (787-797).
handle_rebattle_outcome(u, request_id, role) ==
    IF request_id \notin DOMAIN pending_rebattle_requests THEN "expired"
    ELSE IF u # pending_rebattle_requests[request_id][role] THEN "invalid"
    ELSE "taken"

\* What is common to the three handlers: the checks, then the del of lines
\* 715, 765 and 800.
HandleRebattle(op, u, request_id, role) ==
    /\ IF handle_rebattle_outcome(u, request_id, role) = "taken"
       THEN /\ took' = Taken(op, request_id, pending_rebattle_requests[request_id])
            /\ pending_rebattle_requests' =
                   DictDel(pending_rebattle_requests, request_id)
       ELSE UNCHANGED <<took, pending_rebattle_requests>>
    /\ UNCHANGED <<now, tasks, pending_rebattles, drawn, uuids>>
    /\ RebattleUnchanged

\* lines 694-743.  create_new_battle_session (872-889) calls
\* db.get_random_words_for_scope, which VocabularyBattleDB does not have: it
\* returns None and the handler reports that no session could be created.
handle_rebattle_accept(u, request_id) ==
    HandleRebattle("accept", u, request_id, "opponent_id")

\* lines 745-779
handle_rebattle_decline(u, request_id) ==
    HandleRebattle("decline", u, request_id, "opponent_id")

\* lines 781-813
handle_rebattle_cancel(u, request_id) ==
    HandleRebattle("cancel", u, request_id, "requester_id")

\* lines 896-908
cleanup_expired_rebattle_requests ==
    /\ pending_rebattle_requests' =
           [request_id \in {r \in DOMAIN pending_rebattle_requests :
                   ~(now - pending_rebattle_requests[r].timestamp > ExpiryWindow)}
               |-> pending_rebattle_requests[request_id]]
    /\ UNCHANGED <<now, tasks, pending_rebattles, took, drawn, uuids>>
    /\ RebattleUnchanged

\* The request ids a callback can carry: those of the requests made so far.
UuidRequestIds == {<<n>> : n \in 1..uuids}
TimedRequestIds ==
    {<<a, b, t>> : a \in Users, b \in Users, t \in 1..now}

NextRebattle ==
    \/ now < MaxRebattleTime /\ Tick
    \/ \E u \in Users, current_user_id \in Users, opponent_id \in Users,
          config \in Configs, played \in Sessions :
            /\ opponent_id # current_user_id
            /\ uuids < MaxTickets
            /\ rebattle_request_handler(u, current_user_id, opponent_id, config, played)
    \/ \E t \in BagToSet(tasks) : RebattleSent(t)
    \/ \E t \in BagToSet(tasks), chat_not_found \in BOOLEAN :
            RebattleSendFail(t, chat_not_found)
    \/ \E u \in Users, request_id \in UuidRequestIds :
            /\ Len(took) < MaxTaken
            /\ accept_rebattle_handler(u, request_id)
    \/ \E t \in BagToSet(tasks), session \in Sessions \cup {NoSession} :
            AcceptSession(t, session)
    \/ \E t \in BagToSet(tasks) : AcceptUnavailable(t)
    \/ \E u \in Users, request_id \in UuidRequestIds :
            /\ Len(took) < MaxTaken
            /\ decline_rebattle_handler(u, request_id)
    \/ \E u \in Users, request_id \in UuidRequestIds :
            /\ Len(took) < MaxTaken
            /\ cancel_rebattle_handler(u, request_id)
    \/ \E t \in BagToSet(tasks) : ReplyDone(t)
    \/ \E t \in BagToSet(tasks) : ReplyFail(t)
    \/ cleanup_expired_rebattles

\* The rematch requests of rebate_handlers.py.
SpecRebattle == Init /\ [][NextRebattle]_vars

NextRebattleRequests ==
    \/ now < MaxRebattleTime /\ Tick
    \/ \E u \in Users, requester_id \in Users, opponent_id \in Users :
            /\ opponent_id # requester_id
            /\ Cardinality(DOMAIN pending_rebattle_requests) < MaxTickets
            /\ handle_rebattle_request(u, requester_id, opponent_id)
    \/ \E u \in Users, request_id \in TimedRequestIds :
            /\ Len(took) < MaxTaken
            /\ handle_rebattle_accept(u, request_id)
    \/ \E u \in Users, request_id \in TimedRequestIds :
            /\ Len(took) < MaxTaken
            /\ handle_rebattle_decline(u, request_id)
    \/ \E u \in Users, request_id \in TimedRequestIds :
            /\ Len(took) < MaxTaken
            /\ handle_rebattle_cancel(u, request_id)
    \/ cleanup_expired_rebattle_requests

\* The rematch requests of callback_handlers.py.
SpecRebattleRequests == Init /\ [][NextRebattleRequests]_vars

(***************************************************************************)
(* The words and the battle sessions of the topics: create_word and        *)
(* delete_word of src/database/queries.py and BattleSessionDB of           *)
(* src/database/battle_session.py.  Every method commits once, so a call   *)
(* is one step on the tables.  A session row is [topic_id, session_number, *)
(* word_ids]; word_ids is the set of the ids random.sample drew.           *)
(***************************************************************************)
ContentUnchanged ==
    UNCHANGED <<now, requests, waiting_battles, active_battles, heap,
                current_battle_id, tasks, pairings, shown, has_keyboard, faults,
                result_delivery, delivery, pending_random_requests, last_rowid,
                returned, pending_rebattles, pending_rebattle_requests, took,
                drawn, uuids, battle_history, opponent>>

WordIds == 1..MaxWordId

\* SELECT id FROM words WHERE topic_id = ?
words_of(topic_id) == {w.id : w \in {x \in words : x.topic_id = topic_id}}

\* The rowid SQLite gives a new row of an INTEGER PRIMARY KEY table that is
\* not AUTOINCREMENT: one more than the largest id in the table.
next_word_id ==
    IF words = {} THEN 1
    ELSE (CHOOSE m \in {w.id : w \in words} : \A w \in words : w.id <= m) + 1

\* queries.py lines 786-792
create_word(topic_id) ==
    /\ words' = words \cup {[id |-> next_word_id, topic_id |-> topic_id]}
    /\ UNCHANGED <<battle_sessions_topic, session_lookup>>
    /\ ContentUnchanged

\* queries.py lines 986-1022: the word and its distractors go, the battle
\* sessions are not touched
delete_word(word_id) ==
    /\ words' = {w \in words : w.id # word_id}
    /\ UNCHANGED <<battle_sessions_topic, session_lookup>>
    /\ ContentUnchanged

\* battle_session.py lines 46-91: with too few words the method returns
\* before the DELETE; sample is what random.sample draws for each session
create_battle_sessions_topic(topic_id, session_count, sample) ==
    /\ battle_sessions_topic' =
           IF Cardinality(words_of(topic_id)) < WordsPerSession
           THEN battle_sessions_topic
           ELSE {r \in battle_sessions_topic : r.topic_id # topic_id}
                \cup {[topic_id |-> topic_id, session_number |-> n,
                       word_ids |-> sample[n]] : n \in 1..session_count}
    /\ UNCHANGED <<words, session_lookup>>
    /\ ContentUnchanged

\* The samples random.sample(word_ids, 10) can draw for session_count sessions.
Samples(topic_id, session_count) ==
    [1..session_count ->
        {ids \in SUBSET words_of(topic_id) : Cardinality(ids) = WordsPerSession}]

\* battle_session.py lines 215-249: a row of the topic, or None
get_random_battle_session_topic(topic_id) ==
    /\ \/ \E r \in battle_sessions_topic :
             /\ r.topic_id = topic_id
             /\ session_lookup' = [topic_id |-> topic_id, found |-> TRUE,
                                   word_ids |-> r.word_ids]
       \/ /\ \A r \in battle_sessions_topic : r.topic_id # topic_id
          /\ session_lookup' = [topic_id |-> topic_id, found |-> FALSE,
                                word_ids |-> {}]
    /\ UNCHANGED <<words, battle_sessions_topic>>
    /\ ContentUnchanged

NextSessions ==
    \/ \E topic_id \in ScopeIds : next_word_id <= MaxWordId /\ create_word(topic_id)
    \/ \E word_id \in WordIds : delete_word(word_id)
    \/ \E topic_id \in ScopeIds, session_count \in Sessions :
          \E sample \in Samples(topic_id, session_count) :
             create_battle_sessions_topic(topic_id, session_count, sample)
    \/ \E topic_id \in ScopeIds : get_random_battle_session_topic(topic_id)

SpecSessions == Init /\ [][NextSessions]_vars

\* The questions start_battle_for_players can build from the rows of the
\* database (lines 280-289: three distractors, any strings), each shuffled.
NextShuffle ==
    \E correct_answer \in Strings, distractors \in [1..NumDistractors -> Strings] :
        ShuffleQuestion(correct_answer, distractors)

SpecShuffle == Init /\ [][NextShuffle]_vars

(***************************************************************************)
(* The claims.                                                             *)
(***************************************************************************)
PlayersOf(ref) == DOMAIN heap[ref].players

C4_PairingExclusive ==
    [][/\ \A i \in DOMAIN pairings' : \A j \in DOMAIN pairings' :
             pairings'[i].callback2 = pairings'[j].callback2 => i = j
       /\ \A c \in DOMAIN waiting_battles' :
             c \in DOMAIN waiting_battles => waiting_battles'[c] = waiting_battles[c]
       /\ Len(requests') > Len(requests) =>
             \/ Len(pairings') = Len(pairings) + 1
             \/ /\ pairings' = pairings
                /\ \E c \in DOMAIN waiting_battles' \ DOMAIN waiting_battles :
                      waiting_battles'[c].callback = Len(requests')]_vars

\* C4 witness: a waiting player was paired with another player's request and
\* a later request waits.
C4_Witness ==
    \E k \in DOMAIN pairings :
        /\ pairings[k].user1 # pairings[k].user2
        /\ \E c \in DOMAIN waiting_battles :
              waiting_battles[c].callback > pairings[k].callback1

\* C5: the two players of every pairing are different users.
C5_NoSelfPairing ==
    \A k \in DOMAIN pairings : pairings[k].user1 # pairings[k].user2

\* C6: a user has at most one entry in waiting_battles, over all configs.
C6_OneEntryPerPlayer ==
    \A c1 \in DOMAIN waiting_battles : \A c2 \in DOMAIN waiting_battles :
        waiting_battles[c1].user_id = waiting_battles[c2].user_id => c1 = c2

\* C7: right after a step that pairs two players, neither of them has an
\* entry in waiting_battles, under any config.
C7_NoResidualEntry ==
    [][Len(pairings') > Len(pairings) =>
          LET p == pairings'[Len(pairings')]
          IN  \A c \in DOMAIN waiting_battles' :
                  waiting_battles'[c].user_id \notin {p.user1, p.user2}]_vars

\* C8: the two requests of every pairing asked for the same scope kind and
\* the same scope id.
C8_SameConfig ==
    \A k \in DOMAIN pairings :
        LET mine == requests[pairings[k].callback1]
            theirs == requests[pairings[k].callback2]
        IN  mine.scope = theirs.scope /\ mine.id = theirs.id

\* C8 witness: two users were paired while an entry of another config was
\* waiting, and that entry is still waiting.
C8_Witness ==
    \E k \in DOMAIN pairings :
        /\ pairings[k].user1 # pairings[k].user2
        /\ \E c \in DOMAIN waiting_battles :
              /\ c # pairings[k].config
              /\ waiting_battles[c].callback < pairings[k].callback1

\* The user is a player of the active battle of their session and their
\* completed flag is true.
CompletedInActiveBattle(u) ==
    /\ current_battle_id[u] # NoBattle
    /\ current_battle_id[u] \in DOMAIN active_battles
    /\ u \in PlayersOf(active_battles[current_battle_id[u]])
    /\ heap[active_battles[current_battle_id[u]]].players[u].completed

GoodWords(battle_words) ==
    Cardinality({k \in 1..Len(battle_words) : battle_words[k] >= NumDistractors})

\* C10: when fewer words than a battle has questions come back with at least
\* 3 distractors, the step of start_battle_for_players that follows the
\* lookup leaves active_battles, the battle data and every session as they
\* were.
C10_NoMatchOnInsufficientContent ==
    [][\A t \in BagToSet(tasks) : \A w \in WordResults :
          (GoodWords(w) < QuestionsPerBattle /\ StartStore(t, w)) =>
              UNCHANGED <<active_battles, heap, current_battle_id>>]_vars

\* C10 witness: two different users were paired, the start of their battle
\* has ended and no battle was ever created.
C10_Witness ==
    /\ Len(pairings) = 1
    /\ pairings[1].user1 # pairings[1].user2
    /\ tasks = EmptyBag
    /\ heap = <<>>


\* The rows of a player in the table.
RowsOf(player_id) == {r \in pending_random_requests : r.player_id = player_id}

\* C13: remove_pending_request with one player id removes exactly the rows of
\* that player, returns True exactly when there was one, and leaves the rows
\* of every other player; afterwards the player has no row, so a repeated
\* call finds nothing to remove.
C13_CancelRemovesOwnEntryOnly ==
    [][\A p \in Users :
          remove_pending_request(p, NoPlayer) =>
              /\ pending_random_requests' = pending_random_requests \ RowsOf(p)
              /\ returned'.value = (RowsOf(p) # {})
              /\ RowsOf(p) = {} => pending_random_requests' = pending_random_requests]_vars

\* C13 witness: the last call was a remove_pending_request that returned True
\* and the row of another player is still in the table.
C13_Witness ==
    /\ returned.method = "remove_pending_request"
    /\ returned.value = TRUE
    /\ pending_random_requests # {}

\* C14: at most one accept, decline or cancel passes the checks on a rematch
\* request; every other one finds the request gone.
C14_TicketConsumedOnce ==
    \A i \in DOMAIN took : \A j \in DOMAIN took :
        took[i].request_id = took[j].request_id => i = j

\* C15: no accept, decline or cancel passes the checks on a rematch request
\* that is older than the expiry window.
C15_ExpiredTicketInert ==
    \A k \in DOMAIN took : took[k].age <= ExpiryWindow

\* The user is not the one the request names in the field role.
WrongActor(u, request_id, role) ==
    /\ request_id \in DOMAIN pending_rebattles
    /\ u # pending_rebattles[request_id][role]

\* C16: an accept or decline by a user who is not the opponent of a pending
\* request, and a cancel by a user who is not its requester, is answered as
\* invalid, and the step leaves the request pending and unchanged, suspends
\* no handler, draws no session and creates no battle.
C16_WrongActorRejected ==
    /\ [](\A u \in Users : \A request_id \in DOMAIN pending_rebattles :
            \A role \in {"opponent_id", "requester_id"} :
                WrongActor(u, request_id, role) =>
                    rebattle_outcome(u, request_id, role) = "invalid")
    /\ [][\A u \in Users : \A request_id \in DOMAIN pending_rebattles :
             (\/ /\ WrongActor(u, request_id, "opponent_id")
                 /\ \/ accept_rebattle_handler(u, request_id)
                    \/ decline_rebattle_handler(u, request_id)
              \/ /\ WrongActor(u, request_id, "requester_id")
                 /\ cancel_rebattle_handler(u, request_id))
             => UNCHANGED <<pending_rebattles, tasks, took, drawn, active_battles,
                            heap>>]_vars

\* C16 witness: a request between two different users is pending, its
\* handler has returned and nobody has accepted, declined or cancelled it.
C16_Witness ==
    \E request_id \in DOMAIN pending_rebattles :
        /\ pending_rebattles[request_id].requester_id #
               pending_rebattles[request_id].opponent_id
        /\ tasks = EmptyBag
        /\ took = <<>>
        /\ now > pending_rebattles[request_id].timestamp

\* C17: the battle session an accept draws for the new battle is not the
\* session of the battle the two players just finished.
C17_FreshSession ==
    \A k \in DOMAIN drawn : drawn[k].session # drawn[k].played

\* C18: no two pending rematch requests have the same requester, opponent
\* and battle config.
C18_OneTicketPerTriple ==
    \A r1 \in DOMAIN pending_rebattles : \A r2 \in DOMAIN pending_rebattles :
        (/\ pending_rebattles[r1].requester_id = pending_rebattles[r2].requester_id
         /\ pending_rebattles[r1].opponent_id = pending_rebattles[r2].opponent_id
         /\ pending_rebattles[r1].battle_config = pending_rebattles[r2].battle_config)
        => r1 = r2

\* The call number k of show_battle_results has returned.
ResultsReturned(k) ==
    ~\E t \in BagToSet(tasks) : t.kind = "results" /\ t.run = k

C11_FourDistinctOptionsOneCorrect ==
    delivery # <<>> =>
        LET options == delivery.options
        IN  /\ Len(options) = NumDistractors + 1
            /\ \A i \in DOMAIN options : \A j \in DOMAIN options :
                   options[i] = options[j] => i = j
            /\ Cardinality({i \in DOMAIN options :
                               options[i] = delivery.correct_answer}) = 1
            /\ options[delivery.correct_index + 1] = delivery.correct_answer
            /\ \A k \in DOMAIN delivery.distractors :
                   delivery.distractors[k] # delivery.correct_answer

\* C12: the is_correct of the record an accepted answer appends is true
\* exactly when the chosen index is the correct_index stored in that same
\* player's data for that player's current_question, whatever is stored for
\* the other player.
C12_VerdictByOwnDelivery ==
    [][\A u \in Users : \A a \in OptionIndexes :
          (answer_outcome(u) = "accepted" /\ answer_handler(u, a)) =>
              LET ref == active_battles[current_battle_id[u]]
                  before == heap[ref].players[u]
                  after == heap'[ref].players[u]
                  record == after.answers[Len(after.answers)]
              IN  /\ Len(after.answers) = Len(before.answers) + 1
                  /\ record.question_index = before.current_question
                  /\ record.is_correct =
                         (a = before.correct_index[before.current_question])]_vars

\* C12 witness: an answer was accepted for a question whose correct answer
\* was put at different positions for the two players of the battle.
C12_Witness ==
    \E ref \in DOMAIN heap : \E u \in PlayersOf(ref) : \E v \in PlayersOf(ref) :
        LET mine == heap[ref].players[u]
            theirs == heap[ref].players[v]
        IN  /\ mine.answers # <<>>
            /\ 0 \in DOMAIN theirs.correct_index
            /\ mine.correct_index[0] # theirs.correct_index[0]

\* C21: every battle of active_battles has exactly as many questions as a
\* battle has (10 in the source), each with exactly 3 distractors; the two
\* players share the one list of their battle, and no step changes the list
\* of a battle that stays in active_battles.
C21_FixedQuestionList ==
    /\ [](\A battle_id \in DOMAIN active_battles :
            LET questions == heap[active_battles[battle_id]].questions
            IN  /\ Len(questions) = QuestionsPerBattle
                /\ \A k \in DOMAIN questions : questions[k] = NumDistractors)
    /\ [][\A battle_id \in DOMAIN active_battles \cap DOMAIN active_battles' :
             active_battles'[battle_id] = active_battles[battle_id] =>
                 heap'[active_battles'[battle_id]].questions =
                     heap[active_battles[battle_id]].questions]_vars

\* C21 witness: a battle of two different users is active and one of them
\* has answered its first question.
C21_Witness ==
    \E battle_id \in DOMAIN active_battles :
        /\ Cardinality(PlayersOf(active_battles[battle_id])) = 2
        /\ \E u \in PlayersOf(active_battles[battle_id]) :
              heap[active_battles[battle_id]].players[u].current_question > 0

\* The battle of the user's session is stored (line 318) and no
\* send_question_to_player has stored and sent question 0 of it for the user
\* (lines 371-380).
InCountdown(u) ==
    /\ current_battle_id[u] \in DOMAIN active_battles
    /\ u \in PlayersOf(active_battles[current_battle_id[u]])
    /\ 0 \notin DOMAIN
           heap[active_battles[current_battle_id[u]]].players[u].correct_index

Finalized(ref) ==
    /\ \E k \in DOMAIN shown : shown[k].ref = ref
    /\ \A battle_id \in DOMAIN active_battles : active_battles[battle_id] # ref

C25_LookupReturnsCurrentWords ==
    [][\A topic_id \in ScopeIds :
          get_random_battle_session_topic(topic_id) =>
              /\ session_lookup'.found =>
                    /\ Cardinality(session_lookup'.word_ids) = WordsPerSession
                    /\ session_lookup'.word_ids \subseteq words_of(topic_id)
              /\ Cardinality(words_of(topic_id)) < WordsPerSession =>
                    ~session_lookup'.found]_vars

ResultsSentToBoth(ref) ==
    /\ Finalized(ref)
    /\ \E k \in DOMAIN shown :
          /\ shown[k].ref = ref
          /\ result_delivery[k] = [player1 |-> "sent", player2 |-> "sent"]

\* C27: when nothing fails and every player answers every question that is
\* sent to them, every battle that is stored is eventually finalized: both
\* results are sent and the battle is removed from active_battles.
C27_EventuallyFinalized ==
    \A ref \in 1..MaxPlayedRequests : (ref \in DOMAIN heap) ~> ResultsSentToBoth(ref)

\* C28: a step of answer_handler for a user, before or after its await,
\* leaves the entry of every other player of every battle as it was:
\* answers, current_question, completed, completion_time and the stored
\* correct indices.
C28_AnswerLeavesOtherPlayer ==
    [][\A u \in Users :
          (\/ \E a \in OptionIndexes : answer_handler(u, a)
           \/ \E t \in BagToSet(tasks) : \E i \in OptionIndexes :
                 t.kind = "answer" /\ t.user_id = u /\ AnswerResume(t, i))
          => \A ref \in DOMAIN heap : \A v \in PlayersOf(ref) \ {u} :
                 heap'[ref].players[v] = heap[ref].players[v]]_vars

\* C28 witness: of the two players of a battle one has answered question 0
\* and was sent question 1, the other was sent question 0 and has not
\* answered.
C28_Witness ==
    \E ref \in DOMAIN heap : \E u \in PlayersOf(ref) : \E v \in PlayersOf(ref) :
        /\ u # v
        /\ heap[ref].players[u].current_question = 1
        /\ 1 \in DOMAIN heap[ref].players[u].correct_index
        /\ heap[ref].players[v].answers = <<>>
        /\ heap[ref].players[v].current_question = 0
        /\ DOMAIN heap[ref].players[v].correct_index = {0}

C31_AddReplacesOwnRow ==
    [][\A p \in Users : \A m \in MessageIds : \A c \in Configs :
          add_pending_request(p, m, c) =>
              /\ \E r \in pending_random_requests' :
                    /\ {x \in pending_random_requests' : x.player_id = p} = {r}
                    /\ r.message_id = m
                    /\ r.battle_config = c
              /\ {x \in pending_random_requests' : x.player_id # p} =
                     {x \in pending_random_requests : x.player_id # p}]_vars

\* C31 witness: the last call was an add_pending_request for a player who
\* had a row before, and the rows of two players are in the table.
C31_Witness ==
    /\ returned.method = "add_pending_request"
    /\ \E r \in pending_random_requests :
          /\ r.id = last_rowid
          /\ \E q \in pending_random_requests :
                q.player_id # r.player_id /\ q.id + 1 < r.id

\* C32: the same pending row is never held as the returned opponent by two
\* different requesters that run the pairing sequence at the same time.
C32_RowReturnedOnce ==
    \A u1 \in PendingPlayers : \A u2 \in PendingPlayers \ {u1} :
        opponent[u1] \cap opponent[u2] = {}

\* C33: a battle of two players in active_battles in which a player has
\* completed all questions is eventually removed from active_battles, also
\* when the other player never answers again.
C33_AbandonedBattleRemoved ==
    \A id \in 1..MaxTime :
        (/\ id \in DOMAIN active_battles
         /\ Cardinality(PlayersOf(active_battles[id])) = 2
         /\ \E u \in PlayersOf(active_battles[id]) :
               heap[active_battles[id]].players[u].completed)
        ~> (id \notin DOMAIN active_battles)

\* The battles of two players in active_battles in which a user is a player.
ActiveBattlesOf(u) ==
    {id \in DOMAIN active_battles :
        /\ u \in PlayersOf(active_battles[id])
        /\ Cardinality(PlayersOf(active_battles[id])) = 2}

\* C34: at any time a user is a player of at most one battle of
\* active_battles (battles a user was paired into with themselves are left
\* out of the count).
C34_OneActiveBattlePerPlayer ==
    \A u \in Users : Cardinality(ActiveBattlesOf(u)) <= 1

\* C35: no step replaces the battle stored under a battle id of
\* active_battles by another battle: a battle of two players stays under its
\* id until it is removed, also when another battle of two players is
\* created at the same clock reading.
C35_NoOverwrite ==
    [][\A id \in DOMAIN active_battles :
          (/\ id \in DOMAIN active_battles'
           /\ Cardinality(PlayersOf(active_battles[id])) = 2
           /\ Cardinality(DOMAIN heap'[active_battles'[id]].players) = 2)
          => active_battles'[id] = active_battles[id]]_vars

Starts(pairing) ==
    \E t \in BagToSet(tasks) :
        t.kind = "start" /\ t.callback1 = pairing.callback1

\* A battle was created from a pairing: its players came with the two
\* callbacks of the pairing.
BattleOf(pairing) ==
    {ref \in DOMAIN heap :
        /\ PlayersOf(ref) = {pairing.user1, pairing.user2}
        /\ heap[ref].players[pairing.user1].callback
               \in {pairing.callback1, pairing.callback2}}

\* C37: once the call of start_battle_for_players for a pairing of two users
\* is over, a battle of the requester and the user taken out of
\* waiting_battles was created (the function sends no failure notice on any
\* path).
C37_PairedPlayersGetBattle ==
    \A k \in DOMAIN pairings :
        pairings[k].user1 # pairings[k].user2
        => (Starts(pairings[k]) \/ BattleOf(pairings[k]) # {})

\* C38: after a step of back_to_main_handler for a user, no entry of
\* waiting_battles is that user's.
C38_NoEntryAfterBackToMain ==
    [][\A u \in Users :
          back_to_main_handler(u) =>
              \A c \in DOMAIN waiting_battles' : waiting_battles'[c].user_id # u]_vars

\* The question keyboards built for a player of the battle their session
\* names: the questions whose correct index send_question_to_player stored.
\* The callback data of a button is answer_{i} and does not name the question.
KeyboardsOf(u) ==
    DOMAIN heap[active_battles[current_battle_id[u]]].players[u].correct_index

====
